---- MODULE Spec2Model ----
(***************************************************************************)
(* Verification model of the dlog ledger code.                             *)
(*                                                                         *)
(*   corelib/src/lib.rs   UniverseState: balances, apply_transfer,         *)
(*                        fold_snapshot, encode_master_root                *)
(*   api/src/main.rs      UniverseInner: block_height, tick_once,          *)
(*                        snapshot, and the /tick/once and                 *)
(*                        /universe/snapshot handlers                      *)
(*                                                                         *)
(*   dlog_gold_http/src/omega.rs                                           *)
(*                        InfinityBank: ledger, accrue_interest, handle,   *)
(*                        balance_of, handle_transfer                      *)
(*                                                                         *)
(* The crates are separate programs, so each has its own specification    *)
(* (the InfinityBank exists in the gateway's only):                        *)
(* Spec runs corelib's UniverseState, SpecApi runs the api server,         *)
(* SpecBank runs the gateway's InfinityBank under concurrent frames and    *)
(* SpecTick runs its interest accrual alone over sample ledgers.           *)
(*                                                                         *)
(*   dlog_gold_http/src/main.rs                                            *)
(*                        PhoneAuth and the /omega/handshake handler, with *)
(*                        OmegaGateway.sessions (SpecAuth); SpecBankLive   *)
(*                        is the bank under fair scheduling                *)
(*   dlog-sim-api/src     the /v1/sim/tick handler over OmegaStorage       *)
(*                        (SpecSim), apply_updates_to_chunk (SpecChunk)    *)
(*                        and append_block_events (SpecLedger)             *)
(*   sky/src/lib.rs       SkyTimeline (SpecSky)                            *)
(***************************************************************************)
EXTENDS Integers, Sequences, FiniteSets, TLC

(***************************************************************************)
(* Bounds.  Balance amounts are u128 and heights are u64 in the code; TLC  *)
(* cannot hold 2^128, so MaxBalance and MaxHeight stand for u128::MAX and  *)
(* u64::MAX and all arithmetic is done against them exactly as the code    *)
(* does it against the real limits.                                        *)
(***************************************************************************)
MaxBalance == 2
MaxHeight == 2
MaxTime == 1
MaxTicks == 4
MaxFrames == 2
MaxPeriods == 2
MaxSessions == 2
MaxHandshakes == 2
MaxAppends == 3
MaxSlides == 3
MaxSkyTick == 7

Labels == {"genesis", "fun", "comet"}
Amounts == 0..MaxBalance
Timestamps == 0..MaxTime
Reqs == {"r1", "r2"}

VARIABLES
    balances,        \* UniverseState.balances: HashMap<LabelId, Balance>
    last_snapshot,   \* UniverseState.last_snapshot: Option<UniverseSnapshot>, <<>> is None
    overflow_checks, \* build profile: TRUE panics on integer overflow, FALSE wraps
    last,            \* the last call made on the UniverseState and what it returned
    pre,             \* the UniverseState as it was when that call was made
    block_height,    \* UniverseInner.block_height
    ticks_applied,   \* number of UniverseInner::tick_once calls so far
    req,             \* the api's in-flight requests
    ledger,          \* InfinityBank.ledger: HashMap<String, u128> inside its Mutex
    last_tick_ms,    \* InfinityBank.last_tick_ms inside its Mutex
    ledger_lock,     \* holder of the ledger Mutex, "free" if none
    last_tick_lock,  \* holder of the last_tick_ms Mutex, "free" if none
    clock,           \* now_ms(), in ms since the bank was built
    bank,            \* the threads running InfinityBank::handle
    frames_handled,  \* number of frames handed to the bank so far
    seq_ledger,      \* the ledger the committed steps give, run one after another
    compoundings,    \* number of per-tick compoundings applied so far
    accrued,         \* the last accrual: ledger before, ledger after, ticks
    phone_sessions,  \* PhoneAuth.sessions: HashMap<String, PhoneAuthSession> in its Mutex
    gateway_sessions,\* OmegaGateway.sessions: the session ids it holds
    epoch,           \* epoch_ms(), in ms since the gateway started
    issued,          \* every token start_session has returned, with its phone and expiry
    auth_last,       \* the last PhoneAuth / handshake call and its outcome
    player_state,    \* the bucket's sim;players;<uuid>;state.json objects
    chunks,          \* the bucket's world;chunks;<cx>;<cz>.json objects
    block_ledger,    \* the bucket's ledger;blocks;<cx>;<cz>.json objects
    sim_req,         \* the /v1/sim/tick requests in flight
    sim_last,        \* the last storage call on chunks or ledgers and what it was given
    sky              \* a SkyTimeline, the tick asked for and the slide returned

core_vars == <<balances, last_snapshot, overflow_checks, last, pre>>
api_vars == <<block_height, ticks_applied, req>>
bank_vars == <<ledger, last_tick_ms, ledger_lock, last_tick_lock, clock, bank,
               frames_handled, seq_ledger, compoundings, accrued>>
auth_vars == <<phone_sessions, gateway_sessions, epoch, issued, auth_last>>
vars == <<balances, last_snapshot, overflow_checks, last, pre, block_height, ticks_applied, req,
          ledger, last_tick_ms, ledger_lock, last_tick_lock, clock, bank,
          frames_handled, seq_ledger, compoundings, accrued,
          phone_sessions, gateway_sessions, epoch, issued, auth_last,
          player_state, chunks, block_ledger, sim_req, sim_last, sky>>
sim_vars == <<player_state, chunks, block_ledger, sim_req, sim_last>>
sky_vars == <<sky>>

\* The variables of the programs other than corelib, api and the bank.
ext_vars == <<auth_vars, sim_vars, sky_vars>>

\* The variables PhoneAuth and the session table leave alone.
non_auth_vars == <<core_vars, api_vars, bank_vars, sim_vars, sky_vars>>

(***************************************************************************)
(* corelib: UniverseState                                                  *)
(***************************************************************************)

\* UniverseState::balance_of: the stored balance, zero if absent.
balance_of(bal, label) == IF label \in DOMAIN bal THEN bal[label] ELSE 0

\* UniverseState::set_balance: HashMap::insert.
set_balance(bal, label, balance) ==
    [l \in (DOMAIN bal) \cup {label} |-> IF l = label THEN balance ELSE bal[l]]

\* apply_transfer that looks the receiver's slot up with entry().or_insert(0)
\* before it validates anything.
apply_transfer_entry_first(bal, from, to, amount, checks) ==
    LET touched == set_balance(bal, to, balance_of(bal, to)) IN
    IF amount = 0
    THEN [result |-> "InvalidAmount", balances |-> bal]
    ELSE IF balance_of(bal, from) < amount
         THEN [result |-> "InsufficientBalance", balances |-> touched]
         ELSE [result |-> "Ok",
               balances |-> set_balance(set_balance(bal, from, balance_of(bal, from) - amount),
                                        to, (balance_of(bal, to) + amount) % (MaxBalance + 1))]

\* apply_transfer without the amount == 0 guard: a zero transfer goes through.
apply_transfer_zero_ok(bal, from, to, amount, checks) ==
    IF balance_of(bal, from) < amount
    THEN [result |-> "InsufficientBalance", balances |-> bal]
    ELSE [result |-> "Ok",
          balances |-> set_balance(set_balance(bal, from, balance_of(bal, from) - amount),
                                   to, (balance_of(bal, to) + amount) % (MaxBalance + 1))]

\* apply_transfer without the from_balance < amount guard, on signed amounts.
apply_transfer_unchecked(bal, from, to, amount, checks) ==
    IF amount = 0
    THEN [result |-> "InvalidAmount", balances |-> bal]
    ELSE [result |-> "Ok",
          balances |-> set_balance(set_balance(bal, from, balance_of(bal, from) - amount),
                                   to, (balance_of(bal, to) + amount) % (MaxBalance + 1))]

\* UniverseState::apply_transfer.  `checks` is the build's overflow-checks
\* setting: the unchecked `to_balance.amount + tx.amount` panics when it is
\* on (nothing has been written yet) and wraps when it is off.
apply_transfer(bal, from, to, amount, checks) ==
    IF amount = 0
    THEN [result |-> "InvalidAmount", balances |-> bal]
    ELSE LET from_balance == balance_of(bal, from) IN
         IF from_balance < amount
         THEN [result |-> "InsufficientBalance", balances |-> bal]
         ELSE LET to_balance == balance_of(bal, to)
                  new_from == from_balance - amount
                  sum == to_balance + amount
                  new_to == sum % (MaxBalance + 1)
              IN  IF sum > MaxBalance /\ checks
                  THEN [result |-> "panic", balances |-> bal]
                  ELSE [result |-> "Ok",
                        balances |-> set_balance(set_balance(bal, from, new_from), to, new_to)]

\* UniverseState::encode_master_root: the format! of the two numbers into
\* ";..;height;<H>;time;<T>;", kept as the sequence of its fields.
encode_master_root(height, timestamp_ms) == <<"height", height, "time", timestamp_ms>>

\* fold_snapshot that keeps the height of the last snapshot instead of taking
\* the next one.
fold_snapshot_same_height(ls, timestamp_ms, checks) ==
    LET new_height == IF ls = <<>> THEN 0 ELSE ls[1].height
        snapshot == [height |-> new_height,
                     master_root |-> encode_master_root(new_height, timestamp_ms),
                     timestamp_ms |-> timestamp_ms]
    IN  [result |-> "Ok", last_snapshot |-> <<snapshot>>]

\* UniverseState::fold_snapshot with the clock reading timestamp_ms.
\* `s.height + 1` is an unchecked u64 addition.
fold_snapshot(ls, timestamp_ms, checks) ==
    LET overflow == ls # <<>> /\ ls[1].height + 1 > MaxHeight
        new_height == IF ls = <<>> THEN 0 ELSE (ls[1].height + 1) % (MaxHeight + 1)
        snapshot == [height |-> new_height,
                     master_root |-> encode_master_root(new_height, timestamp_ms),
                     timestamp_ms |-> timestamp_ms]
    IN  IF overflow /\ checks
        THEN [result |-> "panic", last_snapshot |-> ls]
        ELSE [result |-> "Ok", last_snapshot |-> <<snapshot>>]

NoCall == [op |-> "new", from |-> "-", to |-> "-", amount |-> 0, result |-> "Ok", value |-> 0]

\* The state a call starts from.
Before == [balances |-> balances, last_snapshot |-> last_snapshot]

(***************************************************************************)
(* dlog_gold_http: InfinityBank, its data and its arithmetic.  The Default *)
(* ledger and the factor are the program's own numbers; the bank's u128    *)
(* balances stay far below their width within the frames modelled.         *)
(***************************************************************************)
TickPeriodMs == 8
PpmScale == 1000000
phi_tick_factor_ppm == 1000020

Comet == ";9132077554;comet;"
Vortex1 == ";9132077554;vortex1;"
Fun == ";9132077554;fun;"
UnknownLabel == ";<unknown>;"
MissingTo == ";<missing-to>;"

Threads == {"t1", "t2"}

\* The clock readings a frame can arrive at: the first milliseconds and the
\* period boundaries.
ClockReadings == {0, 1, 2} \cup {k * TickPeriodMs : k \in 1..MaxPeriods}

\* The payloads a bank frame can carry.
Frames ==
    {[kind |-> "balance_query", label |-> l, from |-> "-", to |-> "-", amount |-> 0] :
        l \in {Fun, UnknownLabel}}
    \cup {[kind |-> "transfer", label |-> "-", from |-> Fun, to |-> t, amount |-> a] :
        t \in {Comet, MissingTo}, a \in {0, 100, 90000}}
    \cup {[kind |-> "unknown", label |-> "-", from |-> "-", to |-> "-", amount |-> 0]}

\* InfinityBank::default: the ledger it is built with.
DefaultLedger == (Comet :> 1000000) @@ (Vortex1 :> 5000000) @@ (Fun :> 80000)

\* One tick that credits a flat phi_tick_factor_ppm - PpmScale units to a
\* balance instead of multiplying it.
tick_balance_flat(balance) == balance + (phi_tick_factor_ppm - PpmScale)

\* One tick of one balance: (*balance * factor) / 1_000_000, u128 division
\* truncating.  With factor = q * 1_000_000 + r the quotient is
\* balance * q + (balance * r) / 1_000_000, which is how it is computed here.
tick_balance(balance) ==
    balance * (phi_tick_factor_ppm \div PpmScale)
        + (balance * (phi_tick_factor_ppm % PpmScale)) \div PpmScale

RECURSIVE compound(_, _)
\* for _ in 0..ticks { one tick }.
compound(balance, ticks) ==
    IF ticks = 0 THEN balance ELSE compound(tick_balance(balance), ticks - 1)

\* ticks = ((now - *last) / 8).max(1).
ticks_for(now, last_ms) ==
    LET whole == (now - last_ms) \div TickPeriodMs IN IF whole < 1 THEN 1 ELSE whole

\* The loop over ledger.values_mut() of accrue_interest.
accrue_ledger(led, ticks) == [l \in DOMAIN led |-> compound(led[l], ticks)]

\* InfinityBank::handle_transfer from the lock to the return, as one step.
handle_transfer(led, from, to, amount) ==
    LET from_balance == balance_of(led, from) IN
    IF from_balance < amount
    THEN [out |-> "insufficient", ledger |-> led]
    ELSE LET to_balance == balance_of(led, to) IN
         [out |-> "ok",
          ledger |-> set_balance(set_balance(led, from, from_balance - amount),
                                 to, to_balance + amount)]

IdleThread == [pc |-> "idle", now |-> 0, frame |-> CHOOSE f \in Frames : f.kind = "unknown",
               from_balance |-> 0, to_balance |-> 0, value |-> 0, out |-> "-",
               torn |-> FALSE]

\* UniverseState::new, built under either build profile.
CoreInit ==
    /\ balances = <<>>
    /\ last_snapshot = <<>>
    /\ overflow_checks \in BOOLEAN
    /\ last = NoCall
    /\ pre = [balances |-> <<>>, last_snapshot |-> <<>>]

ApiInit ==
    /\ block_height = 0
    /\ ticks_applied = 0
    /\ req = [r \in Reqs |-> [pc |-> "idle", before |-> 0, after |-> 0, resp |-> <<>>]]

\* InfinityBank::default; last_tick_ms is now_ms() at construction, which is
\* where the model's clock starts.
BankInit ==
    /\ ledger = DefaultLedger
    /\ last_tick_ms = 0
    /\ ledger_lock = "free"
    /\ last_tick_lock = "free"
    /\ clock = 0
    /\ bank = [t \in Threads |-> IdleThread]
    /\ frames_handled = 0
    /\ seq_ledger = DefaultLedger
    /\ compoundings = 0
    /\ accrued = [pre |-> DefaultLedger, post |-> DefaultLedger, ticks |-> 0]

\* A program that builds no OmegaGateway has no InfinityBank.
NoBank ==
    /\ ledger = <<>>
    /\ last_tick_ms = 0
    /\ ledger_lock = "free"
    /\ last_tick_lock = "free"
    /\ clock = 0
    /\ bank = <<>>
    /\ frames_handled = 0
    /\ seq_ledger = <<>>
    /\ compoundings = 0
    /\ accrued = <<>>

\* A program without the gateway's PhoneAuth and session table.
NoAuth ==
    /\ phone_sessions = <<>>
    /\ gateway_sessions = {}
    /\ epoch = 0
    /\ issued = <<>>
    /\ auth_last = <<>>

\* No OmegaStorage: dlog-sim-api is not running.
NoSim ==
    /\ player_state = <<>>
    /\ chunks = <<>>
    /\ block_ledger = <<>>
    /\ sim_req = <<>>
    /\ sim_last = <<>>

\* No SkyTimeline has been built.
NoSky == sky = <<>>

\* Nothing but corelib, api and the bank is running.
NoExt == NoAuth /\ NoSim /\ NoSky

\* The corelib and api programs.
Init == CoreInit /\ ApiInit /\ NoBank /\ NoExt

\* The gateway program.  Its sums stay far below u128::MAX within the frames
\* modelled, so the build profile plays no part and is held at the release
\* one.
InitBank == CoreInit /\ ~overflow_checks /\ ApiInit /\ BankInit /\ NoExt

SetBalance(label, balance) ==
    /\ balances' = set_balance(balances, label, balance)
    /\ last' = [NoCall EXCEPT !.op = "set_balance", !.to = label, !.amount = balance]
    /\ pre' = Before
    /\ UNCHANGED <<last_snapshot, overflow_checks, api_vars, bank_vars, ext_vars>>

\* balance_of written with entry(label).or_insert(0): a lookup of an absent
\* label leaves a zero entry behind.
BalanceOf_or_insert(label) ==
    /\ balances' = set_balance(balances, label, balance_of(balances, label))
    /\ last' = [NoCall EXCEPT !.op = "balance_of", !.from = label,
                              !.value = balance_of(balances, label)]
    /\ pre' = Before
    /\ UNCHANGED <<last_snapshot, overflow_checks, api_vars, bank_vars, ext_vars>>

BalanceOf(label) ==
    /\ last' = [NoCall EXCEPT !.op = "balance_of", !.from = label,
                              !.value = balance_of(balances, label)]
    /\ pre' = Before
    /\ UNCHANGED <<balances, last_snapshot, overflow_checks, api_vars, bank_vars, ext_vars>>

ApplyTransfer(from, to, amount) ==
    LET r == apply_transfer(balances, from, to, amount, overflow_checks) IN
    /\ balances' = r.balances
    /\ last' = [NoCall EXCEPT !.op = "apply_transfer", !.from = from, !.to = to,
                              !.amount = amount, !.result = r.result]
    /\ pre' = Before
    /\ UNCHANGED <<last_snapshot, overflow_checks, api_vars, bank_vars, ext_vars>>

\* fold_snapshot that drains the balance map (std::mem::take) while folding.
FoldSnapshot_take(timestamp_ms) ==
    LET r == fold_snapshot(last_snapshot, timestamp_ms, overflow_checks) IN
    /\ balances' = <<>>
    /\ last_snapshot' = r.last_snapshot
    /\ last' = [NoCall EXCEPT !.op = "fold_snapshot", !.result = r.result]
    /\ pre' = Before
    /\ UNCHANGED <<overflow_checks, api_vars, bank_vars, ext_vars>>

FoldSnapshot(timestamp_ms) ==
    LET r == fold_snapshot(last_snapshot, timestamp_ms, overflow_checks) IN
    /\ last_snapshot' = r.last_snapshot
    /\ last' = [NoCall EXCEPT !.op = "fold_snapshot", !.result = r.result]
    /\ pre' = Before
    /\ UNCHANGED <<balances, overflow_checks, api_vars, bank_vars, ext_vars>>

Next ==
    \/ \E label \in Labels, balance \in Amounts : SetBalance(label, balance)
    \/ \E label \in Labels : BalanceOf(label)
    \/ \E from \in Labels, to \in Labels, amount \in Amounts : ApplyTransfer(from, to, amount)
    \/ \E timestamp_ms \in Timestamps : FoldSnapshot(timestamp_ms)

Spec == Init /\ [][Next]_vars

(***************************************************************************)
(* api: UniverseInner behind Arc<RwLock<..>> and its two handlers.  Each   *)
(* lock scope runs without suspending, so each is one step.                *)
(***************************************************************************)

\* tick_once with the result of saturating_add thrown away.
tick_once_dropped(height) == height

\* UniverseInner::tick_once: block_height.saturating_add(1).
tick_once(height) == IF height + 1 > MaxHeight THEN MaxHeight ELSE height + 1

RECURSIVE to_octal_u64(_)
\* to_octal_u64: format!("{:o}"), the base-8 digits, most significant first.
to_octal_u64(value) ==
    IF value < 8 THEN <<value>> ELSE Append(to_octal_u64(value \div 8), value % 8)

\* UniverseInner::snapshot: the fields that depend on the state.
snapshot(height) ==
    [block_height |-> height, block_height_octal |-> to_octal_u64(height)]

Idle == [pc |-> "idle", before |-> 0, after |-> 0, resp |-> <<>>]

\* POST /tick/once, first scope: write lock, tick_once, log, unlock.
TickOnceWrite(r) ==
    /\ req[r].pc = "idle"
    /\ ticks_applied < MaxTicks
    /\ block_height' = tick_once(block_height)
    /\ ticks_applied' = ticks_applied + 1
    /\ req' = [req EXCEPT ![r] = [pc |-> "tick_read", before |-> block_height,
                                  after |-> block_height', resp |-> <<>>]]
    /\ UNCHANGED <<core_vars, bank_vars, ext_vars>>

\* POST /tick/once, second scope: read lock, snapshot, respond.
TickOnceRead(r) ==
    /\ req[r].pc = "tick_read"
    /\ req' = [req EXCEPT ![r].pc = "done", ![r].resp = <<snapshot(block_height)>>]
    /\ UNCHANGED <<block_height, ticks_applied, core_vars, bank_vars, ext_vars>>

\* GET /universe/snapshot: read lock, snapshot, respond.
UniverseSnapshot(r) ==
    /\ req[r].pc = "idle"
    /\ req' = [req EXCEPT ![r] = [pc |-> "done", before |-> block_height,
                                  after |-> block_height,
                                  resp |-> <<snapshot(block_height)>>]]
    /\ UNCHANGED <<block_height, ticks_applied, core_vars, bank_vars, ext_vars>>

\* The response has been sent; the connection takes the next request.
Respond(r) ==
    /\ req[r].pc = "done"
    /\ req' = [req EXCEPT ![r] = Idle]
    /\ UNCHANGED <<block_height, ticks_applied, core_vars, bank_vars, ext_vars>>

NextApi ==
    \/ \E r \in Reqs : TickOnceWrite(r)
    \/ \E r \in Reqs : TickOnceRead(r)
    \/ \E r \in Reqs : UniverseSnapshot(r)
    \/ \E r \in Reqs : Respond(r)

SpecApi == Init /\ [][NextApi]_vars

(***************************************************************************)
(* dlog_gold_http: InfinityBank behind Arc<OmegaGateway>, one thread per   *)
(* frame in flight.  A step is what a thread does between two points where *)
(* another thread can get in: a clock reading, a Mutex acquisition, and,   *)
(* inside handle_transfer, each of the two inserts.                        *)
(***************************************************************************)

\* InfinityBank::handle is entered with a frame; accrue_interest reads the
\* clock before it asks for any lock.
Handle(t, frame, now) ==
    /\ bank[t].pc = "idle"
    /\ frames_handled < MaxFrames
    /\ now >= clock
    /\ clock' = now
    /\ frames_handled' = frames_handled + 1
    /\ bank' = [bank EXCEPT ![t] = [IdleThread EXCEPT !.pc = "accrue", !.now = now,
                                                       !.frame = frame]]
    /\ UNCHANGED <<ledger, last_tick_ms, ledger_lock, last_tick_lock, seq_ledger,
                   compoundings, accrued, core_vars, api_vars, ext_vars>>

\* accrue_interest: last_tick_ms.lock(), then `if now <= *last { return; }`,
\* which drops the guard.
AccrueLockLast(t) ==
    /\ bank[t].pc = "accrue"
    /\ last_tick_lock = "free"
    /\ IF bank[t].now <= last_tick_ms
       THEN /\ bank' = [bank EXCEPT ![t].pc = "dispatch"]
            /\ UNCHANGED last_tick_lock
       ELSE /\ bank' = [bank EXCEPT ![t].pc = "accrue_ledger"]
            /\ last_tick_lock' = t
    /\ UNCHANGED <<ledger, last_tick_ms, ledger_lock, clock, frames_handled, seq_ledger,
                   compoundings, accrued, core_vars, api_vars, ext_vars>>

\* accrue_interest once it is in the ledger: compound every balance `ticks`
\* times, store now in last_tick_ms, drop both guards.
AccrueLedgerBody(t) ==
    LET ticks == ticks_for(bank[t].now, last_tick_ms) IN
    /\ bank[t].pc = "accrue_ledger"
    /\ ledger' = accrue_ledger(ledger, ticks)
    /\ last_tick_ms' = bank[t].now
    /\ last_tick_lock' = "free"
    /\ bank' = [bank EXCEPT ![t].pc = "dispatch"]
    /\ seq_ledger' = accrue_ledger(seq_ledger, ticks)
    /\ compoundings' = compoundings + ticks
    /\ accrued' = [pre |-> ledger, post |-> accrue_ledger(ledger, ticks), ticks |-> ticks]
    /\ UNCHANGED <<ledger_lock, clock, frames_handled, core_vars, api_vars, ext_vars>>

\* accrue_interest that writes the balances without taking the ledger Mutex.
AccrueLedger_unlocked(t) == AccrueLedgerBody(t)

\* accrue_interest: ledger.lock() while last_tick_ms is held, then the body.
AccrueLedger(t) ==
    /\ ledger_lock = "free"
    /\ AccrueLedgerBody(t)

\* handle, kind "balance_query": balance_of reads the ledger and formats the
\* reply.  `torn` records whether a transfer stood between its two inserts.
BalanceQueryBody(t) ==
    /\ bank[t].pc = "dispatch"
    /\ bank[t].frame.kind = "balance_query"
    /\ bank' = [bank EXCEPT ![t].pc = "done",
                            ![t].value = balance_of(ledger, bank[t].frame.label),
                            ![t].out = "balance",
                            ![t].torn = \E u \in Threads : bank[u].pc = "transfer_credit"]
    /\ UNCHANGED <<ledger, last_tick_ms, ledger_lock, last_tick_lock, clock, frames_handled,
                   seq_ledger, compoundings, accrued, core_vars, api_vars, ext_vars>>

\* balance_of that reads the map without taking the ledger Mutex.
BalanceQuery_unlocked(t) == BalanceQueryBody(t)

\* handle, kind "balance_query": InfinityBank::balance_of under ledger.lock().
BalanceQuery(t) ==
    /\ ledger_lock = "free"
    /\ BalanceQueryBody(t)

\* handle, kind "transfer": handle_transfer up to the read of to_balance.
\* amount == 0 returns before the lock; an insufficient sender returns with
\* the guard dropped; otherwise the thread goes on holding the ledger.
HandleTransfer(t) ==
    LET f == bank[t].frame
        from_balance == balance_of(ledger, f.from)
    IN
    /\ bank[t].pc = "dispatch"
    /\ f.kind = "transfer"
    /\ IF f.amount = 0
       THEN /\ bank' = [bank EXCEPT ![t].pc = "done", ![t].out = "rejected"]
            /\ UNCHANGED ledger_lock
       ELSE /\ ledger_lock = "free"
            /\ IF from_balance < f.amount
               THEN /\ bank' = [bank EXCEPT ![t].pc = "done", ![t].out = "insufficient",
                                            ![t].from_balance = from_balance]
                    /\ UNCHANGED ledger_lock
               ELSE /\ bank' = [bank EXCEPT ![t].pc = "transfer_debit",
                                            ![t].from_balance = from_balance,
                                            ![t].to_balance = balance_of(ledger, f.to)]
                    /\ ledger_lock' = t
    /\ UNCHANGED <<ledger, last_tick_ms, last_tick_lock, clock, frames_handled, seq_ledger,
                   compoundings, accrued, core_vars, api_vars, ext_vars>>

\* ledger.insert(from, from_balance - amount).
TransferDebit(t) ==
    /\ bank[t].pc = "transfer_debit"
    /\ ledger' = set_balance(ledger, bank[t].frame.from,
                             bank[t].from_balance - bank[t].frame.amount)
    /\ bank' = [bank EXCEPT ![t].pc = "transfer_credit"]
    /\ UNCHANGED <<last_tick_ms, ledger_lock, last_tick_lock, clock, frames_handled,
                   seq_ledger, compoundings, accrued, core_vars, api_vars, ext_vars>>

\* handle_transfer that keeps the ledger guard alive after it has returned.
TransferCredit_keeps_guard(t) ==
    LET f == bank[t].frame IN
    /\ bank[t].pc = "transfer_credit"
    /\ ledger' = set_balance(ledger, f.to, bank[t].to_balance + f.amount)
    /\ bank' = [bank EXCEPT ![t].pc = "done", ![t].out = "ok"]
    /\ seq_ledger' = handle_transfer(seq_ledger, f.from, f.to, f.amount).ledger
    /\ UNCHANGED <<ledger_lock, last_tick_ms, last_tick_lock, clock, frames_handled,
                   compoundings, accrued, core_vars, api_vars, ext_vars>>

\* ledger.insert(to, to_balance + amount), then the return drops the guard.
TransferCredit(t) ==
    LET f == bank[t].frame IN
    /\ bank[t].pc = "transfer_credit"
    /\ ledger' = set_balance(ledger, f.to, bank[t].to_balance + f.amount)
    /\ ledger_lock' = "free"
    /\ bank' = [bank EXCEPT ![t].pc = "done", ![t].out = "ok"]
    /\ seq_ledger' = handle_transfer(seq_ledger, f.from, f.to, f.amount).ledger
    /\ UNCHANGED <<last_tick_ms, last_tick_lock, clock, frames_handled, compoundings,
                   accrued, core_vars, api_vars, ext_vars>>

\* handle, any other kind: the frame is only routed.
Routed(t) ==
    /\ bank[t].pc = "dispatch"
    /\ bank[t].frame.kind \notin {"balance_query", "transfer"}
    /\ bank' = [bank EXCEPT ![t].pc = "done", ![t].out = "routed"]
    /\ UNCHANGED <<ledger, last_tick_ms, ledger_lock, last_tick_lock, clock, frames_handled,
                   seq_ledger, compoundings, accrued, core_vars, api_vars, ext_vars>>

\* handle has returned its note; the thread is free for the next frame.
Finish(t) ==
    /\ bank[t].pc = "done"
    /\ bank' = [bank EXCEPT ![t] = IdleThread]
    /\ UNCHANGED <<ledger, last_tick_ms, ledger_lock, last_tick_lock, clock, frames_handled,
                   seq_ledger, compoundings, accrued, core_vars, api_vars, ext_vars>>

NextBank ==
    \/ \E t \in Threads, frame \in Frames, now \in ClockReadings : Handle(t, frame, now)
    \/ \E t \in Threads : AccrueLockLast(t)
    \/ \E t \in Threads : AccrueLedger(t)
    \/ \E t \in Threads : BalanceQuery(t)
    \/ \E t \in Threads : HandleTransfer(t)
    \/ \E t \in Threads : TransferDebit(t)
    \/ \E t \in Threads : TransferCredit(t)
    \/ \E t \in Threads : Routed(t)
    \/ \E t \in Threads : Finish(t)

SpecBank == InitBank /\ [][NextBank]_vars

\* What a thread inside handle does next: its runnable thread is scheduled
\* again and again, and a std Mutex that is free is handed to a waiter.
Progress(t) ==
    \/ AccrueLockLast(t)
    \/ AccrueLedger(t)
    \/ BalanceQuery(t)
    \/ HandleTransfer(t)
    \/ TransferDebit(t)
    \/ TransferCredit(t)
    \/ Routed(t)
    \/ Finish(t)

\* The frames and clock readings that take every path through the locks:
\* accrual skipped or applied, a query, a transfer rejected before the lock,
\* rejected under it, applied, and a frame that is only routed.
LiveFrames == {f \in Frames : f.label # UnknownLabel /\ f.to # MissingTo}
LiveReadings == {0, 1}

NextBankLive ==
    \/ \E t \in Threads, frame \in LiveFrames, now \in LiveReadings : Handle(t, frame, now)
    \/ \E t \in Threads : AccrueLockLast(t)
    \/ \E t \in Threads : AccrueLedger(t)
    \/ \E t \in Threads : BalanceQuery(t)
    \/ \E t \in Threads : HandleTransfer(t)
    \/ \E t \in Threads : TransferDebit(t)
    \/ \E t \in Threads : TransferCredit(t)
    \/ \E t \in Threads : Routed(t)
    \/ \E t \in Threads : Finish(t)

SpecBankLive ==
    InitBank /\ [][NextBankLive]_vars /\ \A t \in Threads : WF_vars(Progress(t))

(***************************************************************************)
(* InfinityBank::accrue_interest on its own: one caller, ledgers whose     *)
(* balances are drawn from sample amounts (any split of the funds can be   *)
(* reached by transfers).                                                  *)
(***************************************************************************)
SampleBalances == {0, 100, 200, 25000, 80000, 1000000}

TickInit ==
    /\ CoreInit
    /\ ~overflow_checks
    /\ ApiInit
    /\ ledger \in [DOMAIN DefaultLedger -> SampleBalances]
    /\ last_tick_ms = 0
    /\ ledger_lock = "free"
    /\ last_tick_lock = "free"
    /\ clock = 0
    /\ bank = [t \in Threads |-> IdleThread]
    /\ frames_handled = 0
    /\ seq_ledger = ledger
    /\ compoundings = 0
    /\ accrued = [pre |-> ledger, post |-> ledger, ticks |-> 0]
    /\ NoExt

\* accrue_interest from its clock reading to its return, no other thread
\* running.
AccrueInterest(now) ==
    LET ticks == ticks_for(now, last_tick_ms) IN
    /\ now >= clock
    /\ clock' = now
    /\ IF now <= last_tick_ms
       THEN UNCHANGED <<ledger, last_tick_ms, seq_ledger, compoundings, accrued>>
       ELSE /\ ledger' = accrue_ledger(ledger, ticks)
            /\ last_tick_ms' = now
            /\ seq_ledger' = accrue_ledger(seq_ledger, ticks)
            /\ compoundings' = compoundings + ticks
            /\ accrued' = [pre |-> ledger, post |-> accrue_ledger(ledger, ticks),
                           ticks |-> ticks]
    /\ UNCHANGED <<ledger_lock, last_tick_lock, bank, frames_handled, core_vars, api_vars, ext_vars>>

NextTick ==
    \/ \E now \in ClockReadings : AccrueInterest(now)

SpecTick == TickInit /\ [][NextTick]_vars

(***************************************************************************)
(* dlog_gold_http: PhoneAuth and the gateway's session table.  Each map    *)
(* sits in a Mutex that every method holds from its lookup to its return;  *)
(* the handshake handler calls one method on each map, and what it writes  *)
(* to the table does not depend on the other map, so each handler is one   *)
(* step.  Tokens and session ids are fresh uuids: the n-th token issued is *)
(* the number n, and a session id is one the table does not hold.          *)
(***************************************************************************)

\* expires_at_ms: epoch_ms() + 5 * 60 * 1000.
SessionTtlMs == 300000

\* Option<T>.
None == <<>>
Some(x) == <<x>>

\* Strings are sequences of characters; " " is the whitespace.
Signatures == {<<" ">>, <<" ", "x">>}

\* The phones /auth/phone/start is given, and those a handshake names.
PhoneInputs == {<<" ", "1">>, <<"2">>}
HandshakePhones == {<<"1">>, <<" ", "1">>}

\* epoch_ms() readings: the start, and the last millisecond before and the
\* first after the expiry of a session started then.
EpochReadings == {0, SessionTtlMs, SessionTtlMs + 1}

RECURSIVE trim_start(_)
trim_start(s) ==
    IF s = <<>> THEN s
    ELSE IF Head(s) = " " THEN trim_start(Tail(s)) ELSE s

RECURSIVE trim_end(_)
trim_end(s) ==
    IF s = <<>> THEN s
    ELSE IF s[Len(s)] = " " THEN trim_end(SubSeq(s, 1, Len(s) - 1)) ELSE s

\* str::trim.
trim(s) == trim_end(trim_start(s))

\* HashMap::insert and HashMap::remove.
map_insert(m, k, v) == [x \in DOMAIN m \cup {k} |-> IF x = k THEN v ELSE m[x]]
map_remove(m, k) == [x \in DOMAIN m \ {k} |-> m[x]]

\* PhoneAuth::start_session: the session and the map holding it.
start_session(sessions, token, phone, now) ==
    LET session == [token |-> token, phone |-> phone,
                    expires_at_ms |-> now + SessionTtlMs, verified |-> FALSE]
    IN  [session |-> session, sessions |-> map_insert(sessions, token, session)]

\* PhoneAuth::confirm_session: the identity returned and the map left.
confirm_session(sessions, token, biometric_signature, now) ==
    IF trim(biometric_signature) = <<>> THEN [out |-> None, sessions |-> sessions]
    ELSE IF token \notin DOMAIN sessions THEN [out |-> None, sessions |-> sessions]
    ELSE IF sessions[token].expires_at_ms < now
         THEN [out |-> None, sessions |-> map_remove(sessions, token)]
    ELSE [out |-> Some([phone |-> sessions[token].phone, session_token |-> token]),
          sessions |-> [sessions EXCEPT ![token].verified = TRUE]]

\* verified_identity that takes an unconfirmed session.
verified_identity_unconfirmed(sessions, token, phone, now) ==
    IF token \notin DOMAIN sessions THEN None
    ELSE IF sessions[token].expires_at_ms < now THEN None
    ELSE IF sessions[token].phone # phone THEN None
    ELSE Some([phone |-> sessions[token].phone, presence_state |-> "online"])

\* verified_identity that answers for an expired session.
verified_identity_ignores_expiry(sessions, token, phone, now) ==
    IF token \notin DOMAIN sessions THEN None
    ELSE IF ~sessions[token].verified THEN None
    ELSE IF sessions[token].phone # phone THEN None
    ELSE Some([phone |-> sessions[token].phone, presence_state |-> "online"])

\* PhoneAuth::verified_identity.
verified_identity(sessions, token, phone, now) ==
    IF token \notin DOMAIN sessions THEN None
    ELSE IF sessions[token].expires_at_ms < now \/ ~sessions[token].verified THEN None
    ELSE IF sessions[token].phone # phone THEN None
    ELSE Some([phone |-> sessions[token].phone, presence_state |-> "online"])

\* OmegaGateway.sessions is kept as the set of its keys: a SessionInfo
\* (client id, capabilities, two timestamps) is written at the insert and at
\* handle_frame's bump_input_timestamp, which runs get_mut on a key the map
\* holds and so leaves the keys as they are.

\* Uuid::new_v4 for a session id: one the table does not hold.
new_session_id(gw) == CHOOSE n \in 1..(Cardinality(gw) + 1) : n \notin gw

\* handle_handshake that replaces the table by the new session.
handle_handshake_replaces(gw) ==
    LET session_id == new_session_id(gw)
    IN  [session_id |-> session_id, sessions |-> {session_id}]

\* OmegaGateway::handle_handshake: the session id and the table left.
handle_handshake(gw) ==
    LET session_id == new_session_id(gw)
    IN  [session_id |-> session_id, sessions |-> gw \cup {session_id}]

\* OmegaGateway::status: session_count.
session_count(gw) == Cardinality(gw)

UNAUTHORIZED == 401
OK == 200

\* PhoneAuth::default and OmegaGateway::new: both maps empty.
AuthInit ==
    /\ phone_sessions = <<>>
    /\ gateway_sessions = {}
    /\ epoch = 0
    /\ issued = <<>>
    /\ auth_last = [op |-> "none"]

InitAuth == CoreInit /\ ~overflow_checks /\ ApiInit /\ NoBank /\ AuthInit /\ NoSim /\ NoSky

\* POST /auth/phone/start.
AuthPhoneStart(phone_in, now) ==
    /\ Len(issued) < MaxSessions
    /\ now >= epoch
    /\ LET token == Len(issued) + 1
           phone == trim(phone_in)
           r == start_session(phone_sessions, token, phone, now)
       IN  /\ phone_sessions' = r.sessions
           /\ issued' = Append(issued, [phone |-> phone,
                                        expires_at_ms |-> r.session.expires_at_ms,
                                        confirmed |-> FALSE])
           /\ auth_last' = [op |-> "start", token |-> Some(token), phone |-> Some(phone),
                            signature |-> <<>>, out |-> None, status |-> OK,
                            removed |-> FALSE]
    /\ epoch' = now
    /\ UNCHANGED <<gateway_sessions, non_auth_vars>>

\* POST /auth/phone/confirm.
AuthPhoneConfirm(token, biometric_signature, now) ==
    /\ now >= epoch
    /\ LET r == confirm_session(phone_sessions, token, biometric_signature, now)
       IN  /\ phone_sessions' = r.sessions
           /\ issued' = IF r.out # None /\ trim(biometric_signature) # <<>>
                        THEN [issued EXCEPT ![token].confirmed = TRUE]
                        ELSE issued
           /\ auth_last' = [op |-> "confirm", token |-> Some(token), phone |-> None,
                            signature |-> biometric_signature, out |-> r.out,
                            status |-> IF r.out = None THEN UNAUTHORIZED ELSE OK,
                            removed |-> token \in DOMAIN phone_sessions \ DOMAIN r.sessions]
    /\ epoch' = now
    /\ UNCHANGED <<gateway_sessions, non_auth_vars>>

\* POST /omega/handshake.
Handshake(phone, session_token, now) ==
    /\ now >= epoch
    /\ LET identity == IF phone = None \/ session_token = None THEN None
                       ELSE verified_identity(phone_sessions, session_token[1], phone[1], now)
           r == handle_handshake(gateway_sessions)
       IN  /\ identity # None => session_count(gateway_sessions) < MaxHandshakes
           /\ gateway_sessions' = IF identity = None THEN gateway_sessions ELSE r.sessions
           /\ auth_last' = [op |-> "handshake", token |-> session_token, phone |-> phone,
                            signature |-> <<>>, out |-> identity,
                            status |-> IF identity = None THEN UNAUTHORIZED ELSE OK,
                            removed |-> FALSE]
    /\ epoch' = now
    /\ UNCHANGED <<phone_sessions, issued, non_auth_vars>>

NextAuth ==
    \/ \E phone_in \in PhoneInputs, now \in EpochReadings : AuthPhoneStart(phone_in, now)
    \/ \E token \in 1..MaxSessions, sig \in Signatures, now \in EpochReadings :
           AuthPhoneConfirm(token, sig, now)
    \/ \E phone \in {None} \cup {Some(p) : p \in HandshakePhones},
          token \in {None} \cup {Some(k) : k \in 1..MaxSessions}, now \in EpochReadings :
           Handshake(phone, token, now)

SpecAuth == InitAuth /\ [][NextAuth]_vars

(***************************************************************************)
(* dlog-sim-api: the chunk and block-ledger objects of OmegaStorage and    *)
(* the functions that rewrite them.  A u64 wraps at MaxHeight as it does   *)
(* at u64::MAX.                                                            *)
(***************************************************************************)

\* u64::wrapping_add.
wrapping_add(a, b) == (a + b) % (MaxHeight + 1)

\* i64::div_euclid by a positive divisor: the floor of the quotient.
div_euclid(a, b) == a \div b

\* chunk_coords.
chunk_coords(x, z) == <<div_euclid(x, 16), div_euclid(z, 16)>>

Place == "place"
Break == "break"

\* The block updates a request carries: two coordinates of chunk (0, 0).
Coords == {<<0, 0, 0>>, <<1, 0, 0>>}
BlockNames == {"stone", "dirt"}
BlockUpdates ==
    {[x |-> c[1], y |-> c[2], z |-> c[3], block |-> b, action |-> Place] :
         c \in Coords, b \in BlockNames}
    \cup {[x |-> c[1], y |-> c[2], z |-> c[3], block |-> "air", action |-> Break] :
              c \in Coords}
Batches ==
    {<<>>} \cup {<<u>> : u \in BlockUpdates} \cup {<<u, v>> : u \in BlockUpdates, v \in BlockUpdates}

\* The universe ticks a batch is applied at.
SimTicks == {1, 2}

\* ChunkSnapshot { cx, cz, ..ChunkSnapshot::default() }.
default_chunk(cx, cz) == [cx |-> cx, cz |-> cz, version |-> 0, blocks |-> <<>>]

\* OmegaStorage::load_chunk: the stored object, or the default for the key.
load_chunk(store, cx, cz) ==
    IF <<cx, cz>> \in DOMAIN store THEN store[<<cx, cz>>] ELSE default_chunk(cx, cz)

\* b.x == update.x && b.y == update.y && b.z == update.z.
same_coord(b, update) == b.x = update.x /\ b.y = update.y /\ b.z = update.z

\* upsert_block that pushes without looking for the coordinate.
upsert_block_push(blocks, update, tick) ==
    Append(blocks, [x |-> update.x, y |-> update.y, z |-> update.z,
                    block |-> update.block, last_tick |-> tick])

\* upsert_block: the first block at the coordinate is rewritten, or a new
\* one is pushed.
upsert_block(blocks, update, tick) ==
    LET found == {i \in 1..Len(blocks) : same_coord(blocks[i], update)}
    IN  IF found # {}
        THEN LET i == CHOOSE i \in found : \A j \in found : i <= j
             IN  [blocks EXCEPT ![i].block = update.block, ![i].last_tick = tick]
        ELSE Append(blocks, [x |-> update.x, y |-> update.y, z |-> update.z,
                             block |-> update.block, last_tick |-> tick])

\* remove_block: retain the blocks at other coordinates.
remove_block(blocks, update) ==
    LET keep(b) == ~same_coord(b, update) IN SelectSeq(blocks, keep)

\* The loop of apply_updates_to_chunk over the updates, in order.
RECURSIVE apply_updates(_, _, _)
apply_updates(blocks, updates, tick) ==
    IF updates = <<>> THEN blocks
    ELSE LET update == Head(updates)
             next == IF update.action = Place THEN upsert_block(blocks, update, tick)
                     ELSE remove_block(blocks, update)
         IN  apply_updates(next, Tail(updates), tick)

\* apply_updates_to_chunk: the chunk left and the events returned.
apply_updates_to_chunk(chunk, updates, tick) ==
    IF updates = <<>> THEN [chunk |-> chunk, events |-> <<>>]
    ELSE [chunk |-> [chunk EXCEPT !.blocks = apply_updates(chunk.blocks, updates, tick),
                                  !.version = wrapping_add(chunk.version, 1)],
          events |-> [i \in 1..Len(updates) |->
                         [tick |-> tick, x |-> updates[i].x, y |-> updates[i].y,
                          z |-> updates[i].z, block |-> updates[i].block,
                          action |-> updates[i].action]]]

\* An empty bucket and no call made.
ChunkInit ==
    /\ player_state = <<>>
    /\ chunks = <<>>
    /\ block_ledger = <<>>
    /\ sim_req = <<>>
    /\ sim_last = [op |-> "none"]

InitChunk == CoreInit /\ ~overflow_checks /\ ApiInit /\ NoBank /\ NoAuth /\ ChunkInit /\ NoSky

\* persist_block_updates for one chunk, up to save_chunk: load_chunk,
\* apply_updates_to_chunk, save_chunk.
ApplyUpdatesToChunk(cx, cz, updates, tick) ==
    LET chunk == load_chunk(chunks, cx, cz)
        r == apply_updates_to_chunk(chunk, updates, tick)
    IN  /\ chunks' = map_insert(chunks, <<cx, cz>>, r.chunk)
        /\ sim_last' = [op |-> "apply", chunk |-> chunk, updates |-> updates, tick |-> tick,
                        events |-> r.events]
        /\ UNCHANGED <<player_state, block_ledger, sim_req,
                       core_vars, api_vars, bank_vars, auth_vars, sky_vars>>

NextChunk ==
    \/ \E updates \in Batches, tick \in SimTicks : ApplyUpdatesToChunk(0, 0, updates, tick)

SpecChunk == InitChunk /\ [][NextChunk]_vars

\* const MAX_EVENTS: usize = 512.
MAX_EVENTS == 512

\* The sizes of the batches of events appended.
EventBatchSizes == {0, 1, 300, 512, 513}

\* A batch of n events of one tick, each at its own x.
events_of(tick, n) ==
    [j \in 1..n |-> [tick |-> tick, x |-> j, y |-> 0, z |-> 0, block |-> "stone",
                     action |-> Place]]

\* load_json::<BlockLedger>(key).unwrap_or_default().
load_ledger(store, cx, cz) ==
    IF <<cx, cz>> \in DOMAIN store THEN store[<<cx, cz>>] ELSE [events |-> <<>>]

\* extend_from_slice with no drain after it.
extend_ledger_undrained(loaded, events) == [events |-> loaded.events \o events]

\* extend_from_slice, then drain(0..drop) when there are more than MAX_EVENTS.
extend_ledger(loaded, events) ==
    LET extended == loaded.events \o events
    IN  IF Len(extended) > MAX_EVENTS
        THEN LET drop == Len(extended) - MAX_EVENTS
             IN  [events |-> SubSeq(extended, drop + 1, Len(extended))]
        ELSE [events |-> extended]

\* OmegaStorage::append_block_events: the ledgers left, and whether
\* save_json ran.
append_block_events(store, cx, cz, events) ==
    IF events = <<>> THEN [store |-> store, wrote |-> FALSE]
    ELSE [store |-> map_insert(store, <<cx, cz>>,
                               extend_ledger(load_ledger(store, cx, cz), events)),
          wrote |-> TRUE]

\* The number of append_block_events calls made.
Appends == IF sim_last.op = "append" THEN sim_last.call ELSE 0

\* append_block_events called with the events of one more tick.
AppendBlockEvents(cx, cz, n) ==
    /\ Appends < MaxAppends
    /\ LET events == events_of(Appends + 1, n)
           r == append_block_events(block_ledger, cx, cz, events)
       IN  /\ block_ledger' = r.store
           /\ sim_last' = [op |-> "append", call |-> Appends + 1, store |-> block_ledger,
                           ledger |-> load_ledger(block_ledger, cx, cz),
                           events |-> events, wrote |-> r.wrote]
    /\ UNCHANGED <<player_state, chunks, sim_req,
                   core_vars, api_vars, bank_vars, auth_vars, sky_vars>>

NextLedger ==
    \/ \E n \in EventBatchSizes : AppendBlockEvents(0, 0, n)

SpecLedger == InitChunk /\ [][NextLedger]_vars

(***************************************************************************)
(* dlog-sim-api: the /v1/sim/tick handler.  Every OmegaStorage call is an  *)
(* await on a remote bucket, so a step is one storage call together with   *)
(* the code that runs from its return to the next call.  A failed call     *)
(* ends the request with 500.  The omega position is f64 in the code; the  *)
(* moves modelled are small whole numbers, whose f64 sums are exact.       *)
(***************************************************************************)

SimReqs == {"q1", "q2"}
Steve == "steve"

Move(dx, dy, dz) == [type |-> "Move", dx |-> dx, dy |-> dy, dz |-> dz]
Jump == [type |-> "Jump"]
Interact == [type |-> "Interact"]

\* The TickRequests sent, all for one player: moves only, a move with a
\* block placed, and a move with blocks of two chunks.
TickRequests ==
    {[player_uuid |-> Steve, inputs |-> <<Move(1, 0, 0)>>, block_updates |-> <<>>],
     [player_uuid |-> Steve, inputs |-> <<Jump, Move(0, 2, 0)>>,
      block_updates |-> <<[x |-> 0, y |-> 0, z |-> 0, block |-> "stone", action |-> Place]>>],
     [player_uuid |-> Steve, inputs |-> <<Interact, Move(1, 0, 4)>>,
      block_updates |-> <<[x |-> 0, y |-> 0, z |-> 0, block |-> "air", action |-> Break],
                          [x |-> -1, y |-> 0, z |-> 0, block |-> "dirt", action |-> Place]>>]}

\* PlayerState::default.
default_player_state == [universe_tick |-> 0, omega_x |-> 0, omega_y |-> 0, omega_z |-> 0]

\* The loop of advance over the inputs.
RECURSIVE apply_inputs(_, _)
apply_inputs(state, inputs) ==
    IF inputs = <<>> THEN state
    ELSE LET event == Head(inputs)
             next == IF event.type = "Move"
                     THEN [state EXCEPT !.omega_x = @ + event.dx,
                                        !.omega_y = @ + event.dy,
                                        !.omega_z = @ + event.dz]
                     ELSE state
         IN  apply_inputs(next, Tail(inputs))

\* sim::advance: the next state and the response (its render commands show
\* the request's own position and are left out).
advance(state, request) ==
    LET ticked == [state EXCEPT !.universe_tick = wrapping_add(@, 1)]
        next == apply_inputs(ticked, request.inputs)
    IN  [state |-> next, response |-> [universe_tick |-> next.universe_tick, chunks |-> <<>>]]

\* per_chunk of persist_block_updates: the updates of each chunk, in order.
per_chunk(block_updates) ==
    LET keys == {chunk_coords(block_updates[i].x, block_updates[i].z) :
                     i \in 1..Len(block_updates)}
        of(k) == LET in_chunk(u) == chunk_coords(u.x, u.z) = k
                 IN  SelectSeq(block_updates, in_chunk)
    IN  [k \in keys |-> of(k)]

\* No request in a slot.
IdleReq == [pc |-> "idle", request |-> <<>>, next_state |-> <<>>, response |-> <<>>,
            pending |-> {}, key |-> <<>>, chunk |-> <<>>, events |-> <<>>, ledger |-> <<>>]

\* An empty bucket, no request in flight.
SimInit ==
    /\ player_state = <<>>
    /\ chunks = <<>>
    /\ block_ledger = <<>>
    /\ sim_req = [q \in SimReqs |-> IdleReq]
    /\ sim_last = [op |-> "none"]

InitSim == CoreInit /\ ~overflow_checks /\ ApiInit /\ NoBank /\ NoAuth /\ SimInit /\ NoSky

sim_others == <<sim_last, core_vars, api_vars, bank_vars, auth_vars, sky_vars>>

\* POST /v1/sim/tick arrives.
SimTick(q, request) ==
    /\ sim_req[q].pc = "idle"
    /\ sim_req' = [sim_req EXCEPT ![q] = [IdleReq EXCEPT !.pc = "load_state",
                                                         !.request = request]]
    /\ UNCHANGED <<player_state, chunks, block_ledger, sim_others>>

\* load_player_state, then advance and the grouping of persist_block_updates.
SimLoadState(q) ==
    /\ sim_req[q].pc = "load_state"
    /\ LET request == sim_req[q].request
           current_state == IF request.player_uuid \in DOMAIN player_state
                            THEN player_state[request.player_uuid]
                            ELSE default_player_state
           r == advance(current_state, request)
           pending == DOMAIN per_chunk(request.block_updates)
       IN  sim_req' = [sim_req EXCEPT ![q].next_state = r.state,
                                      ![q].response = r.response,
                                      ![q].pending = pending,
                                      ![q].pc = IF pending = {} THEN "save_state"
                                                ELSE "load_chunk"]
    /\ UNCHANGED <<player_state, chunks, block_ledger, sim_others>>

\* load_chunk for the chunk the HashMap yields next, then
\* apply_updates_to_chunk.
SimLoadChunk(q, key) ==
    /\ sim_req[q].pc = "load_chunk"
    /\ key \in sim_req[q].pending
    /\ LET updates == per_chunk(sim_req[q].request.block_updates)[key]
           r == apply_updates_to_chunk(load_chunk(chunks, key[1], key[2]), updates,
                                       sim_req[q].next_state.universe_tick)
       IN  sim_req' = [sim_req EXCEPT ![q].key = key, ![q].chunk = r.chunk,
                                      ![q].events = r.events, ![q].pc = "save_chunk"]
    /\ UNCHANGED <<player_state, chunks, block_ledger, sim_others>>

\* save_chunk.
SimSaveChunk(q) ==
    /\ sim_req[q].pc = "save_chunk"
    /\ chunks' = map_insert(chunks, sim_req[q].key, sim_req[q].chunk)
    /\ sim_req' = [sim_req EXCEPT ![q].pc = "load_ledger"]
    /\ UNCHANGED <<player_state, block_ledger, sim_others>>

\* append_block_events up to its save: the ledger loaded and extended.
SimLoadLedger(q) ==
    /\ sim_req[q].pc = "load_ledger"
    /\ LET key == sim_req[q].key
       IN  sim_req' = [sim_req EXCEPT
               ![q].ledger = extend_ledger(load_ledger(block_ledger, key[1], key[2]),
                                           sim_req[q].events),
               ![q].pc = "save_ledger"]
    /\ UNCHANGED <<player_state, chunks, block_ledger, sim_others>>

\* The save of append_block_events, then response.chunks.push and the next
\* chunk of the loop.
SimSaveLedger(q) ==
    /\ sim_req[q].pc = "save_ledger"
    /\ block_ledger' = map_insert(block_ledger, sim_req[q].key, sim_req[q].ledger)
    /\ LET pending == sim_req[q].pending \ {sim_req[q].key}
       IN  sim_req' = [sim_req EXCEPT
               ![q].response.chunks = Append(@, sim_req[q].chunk),
               ![q].pending = pending,
               ![q].pc = IF pending = {} THEN "save_state" ELSE "load_chunk"]
    /\ UNCHANGED <<player_state, chunks, sim_others>>

\* save_player_state, then 200 with the response.
SimSaveState(q) ==
    /\ sim_req[q].pc = "save_state"
    /\ player_state' = map_insert(player_state, sim_req[q].request.player_uuid,
                                  sim_req[q].next_state)
    /\ sim_req' = [sim_req EXCEPT ![q].pc = "done"]
    /\ UNCHANGED <<chunks, block_ledger, sim_others>>

\* The storage call the request waits on fails: 500.
SimFail(q) ==
    /\ sim_req[q].pc \in {"load_state", "load_chunk", "save_chunk", "load_ledger",
                          "save_ledger", "save_state"}
    /\ sim_req' = [sim_req EXCEPT ![q].pc = "failed"]
    /\ UNCHANGED <<player_state, chunks, block_ledger, sim_others>>

NextSim ==
    \/ \E q \in SimReqs, request \in TickRequests : SimTick(q, request)
    \/ \E q \in SimReqs : SimLoadState(q)
    \/ \E q \in SimReqs, key \in {<<-1, 0>>, <<0, 0>>} : SimLoadChunk(q, key)
    \/ \E q \in SimReqs : SimSaveChunk(q)
    \/ \E q \in SimReqs : SimLoadLedger(q)
    \/ \E q \in SimReqs : SimSaveLedger(q)
    \/ \E q \in SimReqs : SimSaveState(q)
    \/ \E q \in SimReqs : SimFail(q)

SpecSim == InitSim /\ [][NextSim]_vars

(***************************************************************************)
(* sky: SkyTimeline.  Ticks and durations are u64; MaxSkyTick stands for   *)
(* u64::MAX here, so that a show of several slides fits below it and a     *)
(* sum of durations can pass it.                                           *)
(***************************************************************************)

\* The duration_ticks a slide is given.
SkyDurations == {0, 1, 2, 5}

\* SkyShowConfig.slides: up to MaxSlides slides, slide i with id i.
SkyShows ==
    UNION {[1..n -> SkyDurations] : n \in 0..MaxSlides}

\* Iterator::sum::<u64>() over the durations from slide i on, added to acc:
\* an overflow panics when the build checks overflow and wraps otherwise.
RECURSIVE sum_durations(_, _, _, _)
sum_durations(show, i, acc, checks) ==
    IF i > Len(show) THEN [ok |-> TRUE, value |-> acc]
    ELSE IF acc + show[i] > MaxSkyTick /\ checks THEN [ok |-> FALSE, value |-> 0]
    ELSE sum_durations(show, i + 1, (acc + show[i]) % (MaxSkyTick + 1), checks)

\* SkyTimeline::new; built is false when the sum panicked.
SkyTimeline_new(show, checks) ==
    LET total == sum_durations(show, 1, 0, checks)
    IN  [built |-> total.ok, show |-> show,
         total_duration_ticks |-> IF total.value < 1 THEN 1 ELSE total.value]

\* The loop of slide_at_tick from slide i on, and slides.last() after it.
RECURSIVE slide_loop(_, _, _)
slide_loop(show, i, t) ==
    IF i > Len(show) THEN (IF show = <<>> THEN None ELSE Some(Len(show)))
    ELSE IF t < show[i] THEN Some(i)
    ELSE slide_loop(show, i + 1, t - show[i])

\* slide_at_tick that takes the tick as it is.
slide_at_tick_unreduced(timeline, tick) == slide_loop(timeline.show, 1, tick)

\* SkyTimeline::slide_at_tick: the index of the slide referenced.
slide_at_tick(timeline, tick) ==
    slide_loop(timeline.show, 1, tick % timeline.total_duration_ticks)

\* A timeline built from some show under either build profile.
SkyInit ==
    \E show \in SkyShows :
        sky = [timeline |-> SkyTimeline_new(show, overflow_checks),
               asked |-> FALSE, tick |-> 0, out |-> None]

InitSky == CoreInit /\ ApiInit /\ NoBank /\ NoAuth /\ NoSim /\ SkyInit

\* timeline.slide_at_tick(tick).
SlideAtTick(tick) ==
    /\ sky.timeline.built
    /\ sky' = [sky EXCEPT !.asked = TRUE, !.tick = tick,
                          !.out = slide_at_tick(sky.timeline, tick)]
    /\ UNCHANGED <<core_vars, api_vars, bank_vars, auth_vars, sim_vars>>

NextSky ==
    \/ \E tick \in 0..MaxSkyTick : SlideAtTick(tick)

SpecSky == InitSky /\ [][NextSky]_vars

(***************************************************************************)
(* Properties of UniverseState (checked under Spec)                        *)
(***************************************************************************)

RECURSIVE SumOver(_, _)
SumOver(bal, S) ==
    IF S = {} THEN 0
    ELSE LET l == CHOOSE x \in S : TRUE IN bal[l] + SumOver(bal, S \ {l})

\* Sum of all balances of a balance map.
TotalSupply(bal) == SumOver(bal, DOMAIN bal)

\* The height a UniverseState reports: that of its last snapshot, 0 on a new one.
HeightOf(ls) == IF ls = <<>> THEN 0 ELSE ls[1].height

Transferred == last.op = "apply_transfer"
Folded == last.op = "fold_snapshot" /\ last.result = "Ok"

\* C1: a successful transfer (any sender, any receiver, sender == receiver
\* included, any amount > 0) leaves the sum of all balances as it was.
Conservation ==
    (Transferred /\ last.result = "Ok")
        => TotalSupply(balances) = TotalSupply(pre.balances)

\* C2: transfer(A, A, amount) with 0 < amount <= balance_of(A) succeeds and
\* leaves balance_of(A) as it was.
SelfTransferNoOp ==
    (Transferred /\ last.from = last.to /\ last.amount > 0
        /\ last.amount <= balance_of(pre.balances, last.from))
        => /\ last.result = "Ok"
           /\ balance_of(balances, last.from) = balance_of(pre.balances, last.from)

\* C3: a transfer of more than the sender holds (a sender without an entry
\* holds zero) fails with InsufficientBalance and leaves the balance map,
\* its set of entries included, exactly as it was.
TransferAtomicity ==
    (Transferred /\ last.amount > balance_of(pre.balances, last.from))
        => /\ last.result = "InsufficientBalance"
           /\ balances = pre.balances

\* C3 witness: a rejected transfer from a sender that has no entry to a
\* receiver that has none either.
TransferAtomicityWitness ==
    /\ Transferred
    /\ last.result = "InsufficientBalance"
    /\ last.from # last.to
    /\ last.from \notin DOMAIN pre.balances
    /\ last.to \notin DOMAIN pre.balances
    /\ pre.balances # <<>>

\* C4: a transfer of amount 0 is rejected with InvalidAmount whatever the
\* balances of sender and receiver, and leaves the balance map as it was.
ZeroAmountRejected ==
    (Transferred /\ last.amount = 0)
        => /\ last.result = "InvalidAmount"
           /\ balances = pre.balances

\* C4 witness: a zero transfer from a funded sender to a receiver with no entry.
ZeroAmountRejectedWitness ==
    /\ Transferred
    /\ last.amount = 0
    /\ last.result = "InvalidAmount"
    /\ balance_of(pre.balances, last.from) > 0
    /\ last.to \notin DOMAIN balances

\* C5: for from # to and 0 < amount <= balance_of(from) the transfer
\* succeeds, the sender ends with old_from - amount, the receiver with
\* old_to + amount (an entry is created when it had none) and every other
\* account is untouched.
TransferMovesAmount ==
    (Transferred /\ last.from # last.to /\ last.amount > 0
        /\ last.amount <= balance_of(pre.balances, last.from))
        => /\ last.result = "Ok"
           /\ {last.from, last.to} \subseteq DOMAIN balances
           /\ balances[last.from] = balance_of(pre.balances, last.from) - last.amount
           /\ balances[last.to] = balance_of(pre.balances, last.to) + last.amount
           /\ \A l \in Labels \ {last.from, last.to} :
                 /\ (l \in DOMAIN balances) = (l \in DOMAIN pre.balances)
                 /\ balance_of(balances, l) = balance_of(pre.balances, l)

\* C6: no balance is ever negative, and a transfer that would take the
\* sender below zero is rejected, not applied.
NoNegativeBalances ==
    /\ \A l \in DOMAIN balances : balances[l] >= 0
    /\ (Transferred /\ balance_of(pre.balances, last.from) - last.amount < 0)
          => last.result # "Ok"

\* C6 witness: a funded sender asks for more than it holds and is refused.
NoNegativeBalancesWitness ==
    /\ Transferred
    /\ balance_of(pre.balances, last.from) > 0
    /\ balance_of(pre.balances, last.from) - last.amount < 0
    /\ last.result = "InsufficientBalance"
    /\ balance_of(balances, last.from) > 0

\* C7: two snapshots in a row, nothing in between, carry the same digest.
SnapshotIdempotent ==
    [][(Folded /\ last'.op = "fold_snapshot" /\ last'.result = "Ok")
        => last_snapshot'[1].master_root = last_snapshot[1].master_root]_vars

\* C8: the digest depends on (height, balances) only: the snapshot just
\* taken would carry the same digest had the clock read anything else.
DigestIgnoresTimestamp ==
    Folded =>
        \A t \in Timestamps :
            LET other == fold_snapshot(pre.last_snapshot, t, overflow_checks) IN
            other.result = "Ok"
                => other.last_snapshot[1].master_root = last_snapshot[1].master_root

\* C9: balance_of, set_balance, transfer and snapshot leave the height as
\* it was (only a tick changes it).
OnlyTickChangesHeight ==
    last.op \in {"balance_of", "set_balance", "apply_transfer", "fold_snapshot"}
        => HeightOf(last_snapshot) = HeightOf(pre.last_snapshot)

\* C11: the height never goes down, and a height-advancing call made at the
\* maximum height returns and leaves the height at the maximum.
HeightNeverWraps ==
    /\ HeightOf(last_snapshot) >= HeightOf(pre.last_snapshot)
    /\ (last.op = "fold_snapshot" /\ HeightOf(pre.last_snapshot) = MaxHeight)
          => /\ last.result = "Ok"
             /\ HeightOf(last_snapshot) = MaxHeight

\* C15: a transfer that passes the amount and balance guards but whose
\* credit old_to + amount exceeds the balance width is rejected (it neither
\* succeeds nor aborts) and leaves every balance as it was.
OverflowRejected ==
    (Transferred /\ last.amount > 0
        /\ last.amount <= balance_of(pre.balances, last.from)
        /\ balance_of(pre.balances, last.to) + last.amount > MaxBalance)
        => /\ last.result \notin {"Ok", "panic"}
           /\ balances = pre.balances

\* C18: balance_of returns the stored balance, or 0 for a label without an
\* entry, and leaves the balance map (its set of entries included) and the
\* cached snapshot as they were.
BalanceOfPure ==
    last.op = "balance_of"
        => /\ last.result = "Ok"
           /\ last.value = (IF last.from \in DOMAIN pre.balances
                            THEN pre.balances[last.from] ELSE 0)
           /\ balances = pre.balances
           /\ DOMAIN balances = DOMAIN pre.balances
           /\ last_snapshot = pre.last_snapshot

\* C18 witness: a lookup of a label that has no entry, in a map that holds
\* other entries, returned 0 and the label still has no entry.
BalanceOfPureWitness ==
    /\ last.op = "balance_of"
    /\ last.from \notin DOMAIN balances
    /\ last.value = 0
    /\ \E l \in DOMAIN balances : balances[l] > 0

\* C19: fold_snapshot leaves every balance and the set of entries as they
\* were; the cached last snapshot is all it writes.
SnapshotKeepsBalances ==
    last.op = "fold_snapshot"
        => /\ balances = pre.balances
           /\ DOMAIN balances = DOMAIN pre.balances

\* C19 witness: a snapshot was folded over a map with a funded account and
\* replaced the cached snapshot.
SnapshotKeepsBalancesWitness ==
    /\ Folded
    /\ \E l \in DOMAIN balances : balances[l] > 0
    /\ pre.last_snapshot # <<>>
    /\ last_snapshot # pre.last_snapshot

\* C20: snapshot, successful transfer between two different accounts,
\* snapshot, nothing else in between: the two digests differ.  Stated where
\* the transfer has just returned: whatever the clock reads, the snapshot
\* folded next does not carry the digest of the one folded before it.  Only
\* fold_snapshot writes last_snapshot, so the snapshot before the transfer
\* is the one the transfer started from, whichever calls came after it.
TransferChangesDigest ==
    (Transferred /\ last.result = "Ok" /\ last.from # last.to /\ pre.last_snapshot # <<>>)
        => \A t \in Timestamps :
              LET after == fold_snapshot(last_snapshot, t, overflow_checks) IN
              after.result = "Ok"
                  => after.last_snapshot[1].master_root # pre.last_snapshot[1].master_root

\* C20 witness: a transfer between two accounts succeeded after a snapshot,
\* balances moved, and the next snapshot can be folded at the clock reading
\* of the first.
TransferChangesDigestWitness ==
    /\ Transferred
    /\ last.result = "Ok"
    /\ last.from # last.to
    /\ pre.last_snapshot # <<>>
    /\ balances # pre.balances
    /\ last_snapshot = pre.last_snapshot
    /\ fold_snapshot(last_snapshot, last_snapshot[1].timestamp_ms, overflow_checks).result = "Ok"

(***************************************************************************)
(* Properties of UniverseInner (checked under SpecApi)                     *)
(***************************************************************************)

\* C10: height starts at 0, and a tick from a height below the maximum
\* leaves it exactly one higher.
TickMonotonicity ==
    /\ ticks_applied <= MaxHeight => block_height = ticks_applied
    /\ \A r \in Reqs :
          (req[r].pc = "tick_read" /\ req[r].before < MaxHeight)
              => req[r].after = req[r].before + 1

\* C10 witness: a request has just ticked a ledger that had been ticked before.
TickMonotonicityWitness ==
    \E r \in Reqs :
        /\ req[r].pc = "tick_read"
        /\ req[r].before > 0
        /\ req[r].before < MaxHeight
        /\ req[r].after = req[r].before + 1

\* C24: the snapshot a /tick/once request is answered with reports the
\* height its own tick produced, the height before that tick plus 1.
TickResponseIsOwnTick ==
    \A r \in Reqs :
        (req[r].pc = "done" /\ req[r].after = req[r].before + 1)
            => req[r].resp[1].block_height = req[r].before + 1

(***************************************************************************)
(* Properties of InfinityBank (checked under SpecBank)                     *)
(***************************************************************************)

\* C12: no balance read observes the ledger between a transfer's debit and
\* its credit: every read sees each transfer wholly done or not begun.
ReadsAtomic ==
    \A t \in Threads : ~bank[t].torn

\* C12 witness: a query whose frame arrived no later than a transfer's frame
\* was answered after that transfer and saw the sender's balance debited.
ReadsAtomicWitness ==
    \E t \in Threads, u \in Threads :
        /\ bank[t].out = "balance"
        /\ bank[t].frame.label = Fun
        /\ bank[u].out = "ok"
        /\ bank[u].frame.from = Fun
        /\ bank[t].now <= bank[u].now
        /\ bank[t].value = ledger[Fun]
        /\ bank[t].value < DefaultLedger[Fun]

\* C13: whenever the ledger is not locked it equals the ledger that the
\* accruals and transfers committed so far give when run one after another,
\* and while a transfer holds the balances it read, the ledger still holds
\* them (no tick has gone in between its read and its writes).
Linearizable ==
    /\ ledger_lock = "free" => ledger = seq_ledger
    /\ \A t \in Threads :
          bank[t].pc = "transfer_debit"
              => /\ balance_of(ledger, bank[t].frame.from) = bank[t].from_balance
                 /\ balance_of(ledger, bank[t].frame.to) = bank[t].to_balance

\* C13 witness: a transfer stands between its two inserts while another
\* frame's accrual, with a tick to apply, waits for the ledger.
LinearizableWitness ==
    \E t \in Threads, u \in Threads :
        /\ bank[t].pc = "transfer_credit"
        /\ bank[u].pc = "accrue_ledger"
        /\ last_tick_lock = u
        /\ ledger_lock = t

\* C29: every call of handle, once entered, gets its locks and returns,
\* whatever the other threads do, and last_tick_ms never decreases.
BankCallsReturn ==
    /\ \A t \in Threads : (bank[t].pc # "idle") ~> (bank[t].pc = "idle")
    /\ [][last_tick_ms' >= last_tick_ms]_vars

\* C29 witness: one thread holds last_tick_ms and waits for the ledger while
\* the other holds the ledger in the middle of a transfer; the first has a
\* tick to apply.
BankCallsReturnWitness ==
    \E t \in Threads, u \in Threads :
        /\ bank[t].pc = "accrue_ledger"
        /\ last_tick_lock = t
        /\ bank[u].pc = "transfer_debit"
        /\ ledger_lock = u
        /\ bank[t].now > last_tick_ms

\* C14: the balances are never compounded more often than once for each
\* tick period begun since the bank was built.
CompoundedOncePerPeriod ==
    compoundings <= clock \div TickPeriodMs + 1

\* balance * factor / 1_000_000 rounded to the nearest unit, halves up.
tick_rounded(balance) ==
    balance * (phi_tick_factor_ppm \div PpmScale)
        + (balance * (phi_tick_factor_ppm % PpmScale) + PpmScale \div 2) \div PpmScale

\* C17: an accrual of one tick leaves every balance at old * factor rounded
\* to the nearest unit.
TickRoundsToNearest ==
    accrued.ticks = 1
        => \A a \in DOMAIN accrued.pre : accrued.post[a] = tick_rounded(accrued.pre[a])

(***************************************************************************)
(* Properties of one tick (checked under SpecTick)                         *)
(***************************************************************************)

\* What one accrual added to an account.
Gain(a) == accrued.post[a] - accrued.pre[a]

\* |x|
Abs(x) == IF x < 0 THEN 0 - x ELSE x

LastToken == auth_last.token[1]
LastIssued == auth_last.token # None /\ LastToken \in 1..Len(issued)

\* The last call read the clock (epoch is its reading) after the expiry of the session it named.
LastExpired == LastIssued /\ issued[LastToken].expires_at_ms < epoch

\* The last handshake named a started, confirmed, unexpired session and its phone.
Entitled ==
    /\ auth_last.phone # None
    /\ LastIssued
    /\ issued[LastToken].confirmed
    /\ ~LastExpired
    /\ issued[LastToken].phone = auth_last.phone[1]

\* C21: a handshake gets an identity only for a token that start_session
\* issued, that an earlier confirm_session with a non-blank signature
\* confirmed, that has not expired and whose phone is the one supplied; every
\* other handshake gets None and is answered 401.
HandshakeAuthorized ==
    auth_last.op = "handshake" =>
        /\ auth_last.out # None => Entitled
        /\ ~Entitled => auth_last.out = None /\ auth_last.status = UNAUTHORIZED
        /\ auth_last.out = None <=> auth_last.status = UNAUTHORIZED

\* C21 witness: a handshake was accepted after the clock had moved on.
HandshakeAuthorizedWitness ==
    /\ auth_last.op = "handshake"
    /\ auth_last.out # None
    /\ epoch > 0
    /\ Entitled

\* A session still in the map keeps a verified flag that was true.
VerifiedStays ==
    \A k \in DOMAIN phone_sessions \cap DOMAIN phone_sessions' :
        phone_sessions[k].verified => phone_sessions'[k].verified

\* C22: a confirm_session or verified_identity call that reads the clock
\* after the session's expires_at_ms returns None, confirm_session also
\* removing the session, whether or not the session had been verified; and a
\* session's verified flag never goes from true to false.
ExpiryIsFinal ==
    /\ [](auth_last.op \in {"confirm", "handshake"} /\ LastExpired =>
            /\ auth_last.out = None
            /\ auth_last.op = "confirm" => LastToken \notin DOMAIN phone_sessions)
    /\ [][VerifiedStays]_vars

\* C22 as the code has it: confirm_session removes the expired session when
\* the signature is not blank; a blank signature returns None before the map
\* is looked at.
ExpiryIsFinalUnlessBlank ==
    /\ [](auth_last.op \in {"confirm", "handshake"} /\ LastExpired =>
            /\ auth_last.out = None
            /\ (auth_last.op = "confirm" /\ trim(auth_last.signature) # <<>>)
                   => LastToken \notin DOMAIN phone_sessions)
    /\ [][VerifiedStays]_vars

\* C22 witness: a session that had been verified was confirmed again after
\* its expiry, was refused and is gone from the map.
ExpiryIsFinalUnlessBlankWitness ==
    /\ auth_last.op = "confirm"
    /\ LastExpired
    /\ issued[LastToken].confirmed
    /\ trim(auth_last.signature) # <<>>
    /\ auth_last.out = None
    /\ auth_last.removed
    /\ LastToken \notin DOMAIN phone_sessions

\* C23: a handshake answered 401 leaves OmegaGateway.sessions as it was;
\* session_count grows by exactly 1 with each accepted handshake and by
\* nothing otherwise, so it never decreases.
RejectedHandshakeNoEffect ==
    [][/\ (auth_last'.op = "handshake" /\ auth_last'.status = UNAUTHORIZED)
              => gateway_sessions' = gateway_sessions
       /\ session_count(gateway_sessions') =
              session_count(gateway_sessions)
                  + (IF auth_last'.op = "handshake" /\ auth_last'.status = OK THEN 1 ELSE 0)
      ]_vars

\* C23 witness: a handshake naming a phone and a token was refused while the
\* table held a session, and the table holds it still.
RejectedHandshakeNoEffectWitness ==
    /\ auth_last.op = "handshake"
    /\ auth_last.status = UNAUTHORIZED
    /\ auth_last.phone # None
    /\ auth_last.token # None
    /\ session_count(gateway_sessions) = 1

(***************************************************************************)
(* Properties of apply_updates_to_chunk (checked under SpecChunk)          *)
(***************************************************************************)

\* At most one BlockState per coordinate.
UniqueCoords(blocks) ==
    \A i \in 1..Len(blocks), j \in 1..Len(blocks) :
        (blocks[i].x = blocks[j].x /\ blocks[i].y = blocks[j].y /\ blocks[i].z = blocks[j].z)
            => i = j

\* The blocks of a sequence that sit at a coordinate.
At(blocks, c) ==
    {i \in 1..Len(blocks) : blocks[i].x = c[1] /\ blocks[i].y = c[2] /\ blocks[i].z = c[3]}

\* The chunk stored by the last call.
Stored == chunks[<<sim_last.chunk.cx, sim_last.chunk.cz>>]

\* What the last call did to the blocks, for a batch of one update: a Place
\* on an occupied coordinate rewrites block and last_tick where the block
\* sits, a Place on a free one adds it, a Break leaves none at the coordinate;
\* the blocks elsewhere stay.
OneUpdateApplied ==
    Len(sim_last.updates) = 1 =>
        LET update == sim_last.updates[1]
            c == <<update.x, update.y, update.z>>
            before == sim_last.chunk.blocks
            after == Stored.blocks
        IN  /\ (update.action = Place /\ At(before, c) # {}) =>
                   /\ Len(after) = Len(before)
                   /\ \A i \in 1..Len(before) :
                          after[i] = IF i \in At(before, c)
                                     THEN [before[i] EXCEPT !.block = update.block,
                                                            !.last_tick = sim_last.tick]
                                     ELSE before[i]
            /\ (update.action = Place /\ At(before, c) = {}) =>
                   /\ Len(after) = Len(before) + 1
                   /\ At(after, c) = {Len(after)}
                   /\ after[Len(after)].block = update.block
                   /\ after[Len(after)].last_tick = sim_last.tick
                   /\ \A i \in 1..Len(before) : after[i] = before[i]
            /\ update.action = Break =>
                   /\ At(after, c) = {}
                   /\ Len(after) = Len(before) - Cardinality(At(before, c))
                   /\ \A i \in 1..Len(after) : \E j \in 1..Len(before) : after[i] = before[j]

\* C26: a chunk with at most one block per coordinate has at most one after
\* apply_updates_to_chunk; a Place on an occupied coordinate overwrites block
\* and last_tick in place and a Break removes the coordinate's block; version
\* is one more after a non-empty batch and the same after an empty one.
ChunkBlocksUnique ==
    sim_last.op = "apply" =>
        /\ UniqueCoords(sim_last.chunk.blocks) => UniqueCoords(Stored.blocks)
        /\ OneUpdateApplied
        /\ Stored.version = sim_last.chunk.version
                                + (IF sim_last.updates = <<>> THEN 0 ELSE 1)

\* C26 with the version as the code counts it: wrapping_add, so one more
\* except at u64::MAX, where it starts again from 0.
ChunkBlocksUniqueWrapping ==
    sim_last.op = "apply" =>
        /\ UniqueCoords(sim_last.chunk.blocks) => UniqueCoords(Stored.blocks)
        /\ OneUpdateApplied
        /\ Stored.version = IF sim_last.updates = <<>> THEN sim_last.chunk.version
                            ELSE IF sim_last.chunk.version = MaxHeight THEN 0
                            ELSE sim_last.chunk.version + 1

\* C26 witness: a batch of two updates with a Place on an occupied coordinate
\* was applied to a chunk of two blocks.
ChunkBlocksUniqueWrappingWitness ==
    /\ sim_last.op = "apply"
    /\ Len(sim_last.chunk.blocks) = 2
    /\ Len(sim_last.updates) = 2
    /\ \E i \in 1..2 :
           /\ sim_last.updates[i].action = Place
           /\ At(sim_last.chunk.blocks, <<sim_last.updates[i].x, sim_last.updates[i].y,
                                          sim_last.updates[i].z>>) # {}
    /\ Len(Stored.blocks) = 2
    /\ Stored.version = sim_last.chunk.version + 1

(***************************************************************************)
(* Properties of append_block_events (checked under SpecLedger)            *)
(***************************************************************************)

\* The ledger the last append left at the key it was given.
StoredEvents == load_ledger(block_ledger, 0, 0).events

NoLostUpdate ==
    (\A q \in SimReqs : sim_req[q].pc = "done") =>
        LET both == apply_inputs(apply_inputs(default_player_state,
                                              sim_req["q1"].request.inputs),
                                 sim_req["q2"].request.inputs)
        IN  /\ Steve \in DOMAIN player_state
            /\ player_state[Steve].universe_tick =
                   wrapping_add(default_player_state.universe_tick, 2)
            /\ player_state[Steve].omega_x = both.omega_x
            /\ player_state[Steve].omega_y = both.omega_y
            /\ player_state[Steve].omega_z = both.omega_z

(***************************************************************************)
(* Properties of SkyTimeline (checked under SpecSky)                       *)
(***************************************************************************)

\* The durations of the first i slides, added up.
RECURSIVE DurationBefore(_, _)
DurationBefore(show, i) == IF i = 0 THEN 0 ELSE DurationBefore(show, i - 1) + show[i]

\* C28: with a slide of non-zero duration and total duration T, the slide at
\* tick t is the slide at t mod T and at t + T, and it is the one slide i
\* with duration before i <= t mod T < duration up to i; with no slides the
\* answer is None and the total duration is 1.
SlidePeriodic ==
    sky.asked =>
        LET show == sky.timeline.show
            T == sky.timeline.total_duration_ticks
            t == sky.tick
        IN  /\ (\E i \in 1..Len(show) : show[i] # 0) =>
                   /\ sky.out = slide_at_tick(sky.timeline, t % T)
                   /\ t + T <= MaxSkyTick => sky.out = slide_at_tick(sky.timeline, t + T)
                   /\ {Some(i) : i \in {j \in 1..Len(show) :
                                           /\ DurationBefore(show, j - 1) <= t % T
                                           /\ t % T < DurationBefore(show, j)}}
                          = {sky.out}
            /\ show = <<>> => sky.out = None /\ T = 1

\* C28 witness: a tick past the first round of a show was asked for and a
\* slide after the first is showing.
SlidePeriodicWitness ==
    /\ sky.asked
    /\ Len(sky.timeline.show) >= 2
    /\ sky.tick >= sky.timeline.total_duration_ticks
    /\ sky.timeline.total_duration_ticks > 1
    /\ \E i \in 2..Len(sky.timeline.show) : sky.out = Some(i)

====
